---- MODULE Spec2Model ----
(***************************************************************************)
(* The /chat request pipeline of dd-gemini-app (src/main.py) with its      *)
(* sliding-window rate limiter, its lock-guarded aggregate counters and    *)
(* the best-effort telemetry emitter (src/datadog_emit.py).                 *)
(*                                                                         *)
(* Every server thread handles one request at a time; the steps of chat()  *)
(* are the actions below, one per statement that reads the clock, takes    *)
(* or releases _lock, touches shared state or performs an outbound call.   *)
(***************************************************************************)
EXTENDS Integers, Sequences, FiniteSets, TLC

\* ------------------------------------------------------------------ bounds
MaxRequests == 2        \* requests that enter the handler in one run
MaxLimit == 2           \* largest configured RATE_LIMIT_RPM
MaxArrivals == 4        \* requests that reach the rate limiter in one run
MaxVisits == 3          \* requests of two clients that reach the rate limiter
MaxCalls == 2           \* requests handled while diagnostics are read
MaxTotal == 8            \* largest requests_total a snapshot is computed from
MaxLatencySum == 12     \* largest cumulative latency (ms) a snapshot is computed from
MaxSnapshots == 2       \* consecutive reads of /metrics with no request step between

\* The server threads that run chat(): two, the smallest pool in which the
\* handlers of two requests overlap.
Threads == {1, 2}

\* The instants at which the wall clock is observed (seconds).
Instants == {0, 1, 61}

\* ------------------------------------------------------------ input domains
NoKey == "<none>"
Unread == "<unread>"
Clients == {"10.0.0.1", "10.0.0.2"}
\* X-API-Key header values: absent, the configured secret, another one.
ApiKeys == {NoKey, "secret", "wrong"}

\* A message is a sequence of characters; SP is a whitespace character, the
\* other tokens stand for maximal runs of non-whitespace characters.
SP == " "
FORCE_500 == "force_500"
Messages == {<<>>, <<SP>>, <<SP, "hello">>, <<FORCE_500, SP>>}

\* Outcomes of one HTTPS POST to the telemetry sink.
NetOutcomes == {"2xx", "http_error", "http_error_body_lost", "transport_error", "timeout"}

\* Results of the inference collaborator.
InferenceOutcomes == {"text", "no_text", "raises"}
ANSWER == "generated answer"

\* ------------------------------------------------------- program constants
WINDOW_SECONDS == 60
GEMINI_MODEL == "gemini-2.0-flash"
GOOGLE_CLOUD_LOCATION == "us-central1"

VARIABLES
    \* configuration, read once at import time
    APP_API_KEY,          \* NoKey when unset
    DD_API_KEY,           \* TRUE when a telemetry credential is configured
    GOOGLE_CLOUD_PROJECT, \* TRUE when configured
    RATE_LIMIT_RPM,
    \* shared state
    clock,                \* time.time(), in seconds
    lock,                 \* holder of _lock, 0 when free
    TOTAL_REQUESTS,
    TOTAL_ERRORS,
    TOTAL_LATENCY_MS,
    ip_hits,              \* _ip_hits: client ip -> sequence of timestamps
    entered,              \* number of requests that entered chat()
    \* per-thread state of chat()
    pc,
    req,                  \* the request being handled
    now,                  \* rate_limit_ok's local 'now'
    latency_ms,
    exc,                  \* the exception in flight
    resp,                 \* what generate_content returned
    response,             \* what the caller gets
    \* history of the request being handled (not program state)
    calls,
    stages,
    admissions,           \* every admission made by rate_limit_ok
    ledger,               \* what the requests answered so far amount to
    \* the diagnostics endpoint
    snapshot,             \* what metrics() returned last
    observed              \* history: the state that snapshot was taken in

cfgvars == <<APP_API_KEY, DD_API_KEY, GOOGLE_CLOUD_PROJECT, RATE_LIMIT_RPM>>
counters == <<TOTAL_REQUESTS, TOTAL_ERRORS, TOTAL_LATENCY_MS>>
locals == <<req, now, latency_ms, exc, resp, response>>
diag == <<snapshot, observed>>
vars == <<cfgvars, clock, lock, counters, ip_hits, entered, pc, locals,
          calls, stages, admissions, ledger, diag>>


\* ------------------------------------------------------------ pure helpers
\* Python truthiness of an optional string: None and "" are falsy.
Truthy(s) == s # NoKey /\ s # ""

\* str.strip(): drop leading and trailing whitespace characters.
RECURSIVE lstrip(_)
lstrip(s) == IF s # <<>> /\ Head(s) = SP THEN lstrip(Tail(s)) ELSE s

RECURSIVE rstrip(_)
rstrip(s) ==
    IF s # <<>> /\ s[Len(s)] = SP THEN rstrip(SubSeq(s, 1, Len(s) - 1)) ELSE s

strip(s) == rstrip(lstrip(s))

\* main.py:160  APP_API_KEY and (not x_api_key or x_api_key != APP_API_KEY)
api_key_rejected(app_key, x_api_key) ==
    Truthy(app_key) /\ (~Truthy(x_api_key) \/ x_api_key # app_key)

\* main.py:96-97  while q and q[0] < window_start: q.popleft()
RECURSIVE prune(_, _)
prune(q, window_start) ==
    IF q # <<>> /\ Head(q) < window_start THEN prune(Tail(q), window_start) ELSE q

\* main.py:92-103  the decision of rate_limit_ok on window q at time t:
\* the window it leaves behind and the value it returns.
rate_limit_decide(q, t, limit) ==
    LET pruned == prune(q, t - WINDOW_SECONDS) IN
    IF Len(pruned) >= limit
    THEN [hits |-> pruned, ok |-> FALSE]
    ELSE [hits |-> Append(pruned, t), ok |-> TRUE]

\* hits_of that looks up one window for every client.
hits_of_anyone(h, ip) == IF DOMAIN h = {} THEN <<>> ELSE h[CHOOSE k \in DOMAIN h : TRUE]

\* _ip_hits is a defaultdict(deque): reading a missing key creates it empty.
hits_of(h, ip) == IF ip \in DOMAIN h THEN h[ip] ELSE <<>>

hits_put(h, ip, q) == [k \in DOMAIN h \cup {ip} |-> IF k = ip THEN q ELSE h[k]]

\* datadog_emit.py:17-31  _post_json: TRUE when an exception leaves it.
\*   no credential            -> returns at once
\*   urlopen(...).read() ok   -> returns
\*   HTTPError (non-2xx)      -> handler reads the error body, e.read(); that
\*                               read is outside any try, so a connection lost
\*                               while the body is read raises out of here
\*   any other Exception      -> pass
post_json_raises(dd_key, net) ==
    IF ~dd_key THEN FALSE
    ELSE IF net = "http_error" THEN FALSE
    ELSE IF net = "http_error_body_lost" THEN TRUE
    ELSE FALSE

\* datadog_emit.py:34-48 and 51-71: emit_log / emit_metric return early
\* without a credential, else build the payload and call _post_json.
emit_raises(dd_key, net) == IF ~dd_key THEN FALSE ELSE post_json_raises(dd_key, net)

\* exceptions and responses
NoExc == [kind |-> "none"]
HTTPException(code, detail) == [kind |-> "HTTPException", status_code |-> code, detail |-> detail]
PyException(type, text) == [kind |-> "Exception", type |-> type, text |-> text]
SinkError == PyException("ConnectionResetError", "connection reset by peer")

NoResponse == [status |-> 0]
\* main.py:224-229
ChatResponse(rid, lat, answer) ==
    [status |-> 200, request_id |-> rid, model |-> GEMINI_MODEL,
     latency_ms |-> lat, answer |-> answer]
\* FastAPI renders a raised HTTPException as its status code and detail.
ErrorResponse(he) == [status |-> he.status_code, detail |-> <<he.detail>>]
\* main.py:329
InternalErrorDetail(rid) == <<"Internal error (request_id=", rid, ")">>
\* An exception that leaves chat() unhandled: the server answers with its
\* own plain 500.
UnhandledResponse(e) ==
    [status |-> 500, detail |-> <<"Internal Server Error">>, unhandled |-> e.type]


\* ------------------------------------------------------------------- Init
NoRequest == [request_id |-> "", client_ip |-> "", start |-> 0,
              x_api_key |-> Unread, message |-> <<Unread>>]
NoCalls == [requests_count |-> 0, outcome_count |-> 0, gauge |-> 0, log |-> 0,
            inference |-> 0, rate_limit |-> "none", seen |-> 0, aged |-> FALSE, recorded |-> 0,
            stale |-> FALSE,
            inc_requests |-> 0, inc_errors |-> 0, inc_latency |-> 0]

NoLedger == [failed |-> 0, reached |-> 0, latency |-> 0]
NoSnapshot == [requests_total |-> -1]
NotObserved == [run |-> 0, counters |-> <<0, 0, 0>>,
                inflight |-> [w \in Threads |-> <<0, 0, 0>>]]

\* A step of a request: the last snapshot is no longer the latest state.
Stepped ==
    /\ snapshot' = snapshot
    /\ observed' = [observed EXCEPT !.run = 0]

Configured(app_keys, dd_keys, projects, limits) ==
    /\ APP_API_KEY \in app_keys
    /\ DD_API_KEY \in dd_keys
    /\ GOOGLE_CLOUD_PROJECT \in projects
    /\ RATE_LIMIT_RPM \in limits

\* The state with no request in flight in which `requests` requests that
\* reached the inference stage and `errors` requests rejected for an empty
\* message have been answered, all at time 0, with `latency` ms in total.
Loaded(requests, errors, latency) ==
    /\ clock = 0
    /\ lock = 0
    /\ TOTAL_REQUESTS = requests
    /\ TOTAL_ERRORS = errors
    /\ TOTAL_LATENCY_MS = latency
    /\ ip_hits = IF requests + errors = 0 THEN <<>>
                 ELSE hits_put(<<>>, "10.0.0.1", [i \in 1..(requests + errors) |-> 0])
    /\ entered = requests + errors
    /\ pc = [w \in Threads |-> "idle"]
    /\ req = [w \in Threads |-> NoRequest]
    /\ now = [w \in Threads |-> 0]
    /\ latency_ms = [w \in Threads |-> 0]
    /\ exc = [w \in Threads |-> NoExc]
    /\ resp = [w \in Threads |-> "none"]
    /\ response = [w \in Threads |-> NoResponse]
    /\ calls = [w \in Threads |-> NoCalls]
    /\ stages = [w \in Threads |-> <<>>]
    /\ admissions = [i \in 1..(requests + errors) |-> [ip |-> "10.0.0.1", t |-> 0]]
    /\ ledger = [failed |-> errors, reached |-> requests, latency |-> latency]
    /\ snapshot = NoSnapshot
    /\ observed = NotObserved

Started == Loaded(0, 0, 0)

\* ------------------------------------------------------- exception routing
\* Where control goes when exception e is raised at a statement of chat():
\* inside the try body an HTTPException enters the first handler (bound to
\* he) and anything else the second (bound to e); before the try and inside
\* a handler it leaves chat() and the server answers for it.  exc is the
\* exception a handler of chat() has caught.
Raise(w, e, where) ==
    IF where = "try"
    THEN /\ exc' = [exc EXCEPT ![w] = e]
         /\ pc' = [pc EXCEPT ![w] =
                     IF e.kind = "HTTPException" THEN "he_latency" ELSE "ex_latency"]
         /\ response' = response
    ELSE /\ exc' = exc
         /\ pc' = [pc EXCEPT ![w] = "done"]
         /\ response' = [response EXCEPT ![w] = UnhandledResponse(e)]

\* One call of emit_metric / emit_log made at pc `at`: it returns and control
\* moves on to `next`, or it raises where the call stands.
Emit(w, at, what, where, next) ==
    /\ pc[w] = at
    /\ calls' = [calls EXCEPT ![w][what] = @ + 1]
    /\ \E net \in NetOutcomes :
          IF emit_raises(DD_API_KEY, net)
          THEN Raise(w, SinkError, where)
          ELSE /\ pc' = [pc EXCEPT ![w] = next]
               /\ UNCHANGED <<exc, response>>
    /\ Stepped
    /\ UNCHANGED <<cfgvars, ledger, clock, lock, counters, ip_hits, entered, req, now,
                   latency_ms, resp, stages, admissions>>

\* ---------------------------------------------------------------- actions
\* The wall clock moves on to a later instant.
Tick(instants) ==
    /\ \E t \in instants : t > clock /\ clock' = t
    /\ UNCHANGED <<cfgvars, ledger, diag, lock, counters, ip_hits, entered, pc, locals,
                   calls, stages, admissions>>

\* main.py:149-153  a request enters chat(): request_id, start, client_ip.
\* The header and the message of the request are drawn where chat() first
\* reads them (ApiKeyGate, Validate) and kept in req from there on.
Receive(w, ips, max) ==
    /\ pc[w] = "idle"
    /\ \A v \in Threads : v < w => pc[v] # "idle"   \* first idle thread
    /\ entered < max
    /\ entered' = entered + 1
    /\ \E ip \in ips :
          req' = [req EXCEPT ![w] =
                    [request_id |-> ToString(entered + 1), client_ip |-> ip,
                     start |-> clock, x_api_key |-> Unread,
                     message |-> <<Unread>>]]
    /\ pc' = [pc EXCEPT ![w] = "emit_requests"]
    /\ Stepped
    /\ UNCHANGED <<cfgvars, ledger, clock, lock, counters, ip_hits, now, latency_ms,
                   exc, resp, response, calls, stages, admissions>>

\* main.py:156
EmitRequestsCount(w) == Emit(w, "emit_requests", "requests_count", "before_try", "auth")

\* ApiKeyGate with the raise left out: a rejected credential is noticed
\* and the request goes on to the rate limiter.
ApiKeyGateNoRaise(w, keys) ==
    /\ pc[w] = "auth"
    /\ stages' = [stages EXCEPT ![w] = Append(@, "auth")]
    /\ \E x_api_key \in keys :
          req' = [req EXCEPT ![w].x_api_key = x_api_key]
    /\ pc' = [pc EXCEPT ![w] = "rl_now"]
    /\ Stepped
    /\ UNCHANGED <<cfgvars, ledger, clock, lock, counters, ip_hits, entered, now,
                   latency_ms, exc, resp, response, calls, admissions>>

\* ApiKeyGate placed after the limiter's bookkeeping: the request's
\* timestamp is in its client's window when the credential is looked at.
ApiKeyGateAfterLimiter(w, keys) ==
    /\ pc[w] = "auth"
    /\ stages' = [stages EXCEPT ![w] = Append(@, "auth")]
    /\ ip_hits' = hits_put(ip_hits, req[w].client_ip,
                           Append(hits_of(ip_hits, req[w].client_ip), clock))
    /\ \E x_api_key \in keys :
          /\ req' = [req EXCEPT ![w].x_api_key = x_api_key]
          /\ IF api_key_rejected(APP_API_KEY, x_api_key)
             THEN Raise(w, HTTPException(401, "Unauthorized: missing or invalid X-API-Key"), "try")
             ELSE /\ pc' = [pc EXCEPT ![w] = "rl_now"]
                  /\ UNCHANGED <<exc, response>>
    /\ Stepped
    /\ UNCHANGED <<cfgvars, ledger, clock, lock, counters, entered, now,
                   latency_ms, resp, calls, admissions>>

\* main.py:159-161
ApiKeyGate(w, keys) ==
    /\ pc[w] = "auth"
    /\ stages' = [stages EXCEPT ![w] = Append(@, "auth")]
    /\ \E x_api_key \in keys :
          /\ req' = [req EXCEPT ![w].x_api_key = x_api_key]
          /\ IF api_key_rejected(APP_API_KEY, x_api_key)
             THEN Raise(w, HTTPException(401, "Unauthorized: missing or invalid X-API-Key"), "try")
             ELSE /\ pc' = [pc EXCEPT ![w] = "rl_now"]
                  /\ UNCHANGED <<exc, response>>
    /\ Stepped
    /\ UNCHANGED <<cfgvars, ledger, clock, lock, counters, ip_hits, entered, now,
                   latency_ms, resp, calls, admissions>>

\* main.py:91-92  rate_limit_ok reads the clock before it takes the lock
RateLimitNow(w) ==
    /\ pc[w] = "rl_now"
    /\ now' = [now EXCEPT ![w] = clock]
    /\ stages' = [stages EXCEPT ![w] = Append(@, "rate_limit")]
    /\ pc' = [pc EXCEPT ![w] = "rl_lock"]
    /\ Stepped
    /\ UNCHANGED <<cfgvars, ledger, clock, lock, counters, ip_hits, entered, req,
                   latency_ms, exc, resp, response, calls, admissions>>

\* with _lock:  (main.py:94, 175, 193, 235, 285)
Acquire(w, at, next) ==
    /\ pc[w] = at
    /\ lock = 0
    /\ lock' = w
    /\ pc' = [pc EXCEPT ![w] = next]
    /\ Stepped
    /\ UNCHANGED <<cfgvars, ledger, clock, counters, ip_hits, entered, locals, calls,
                   stages, admissions>>

RateLimitAcquire(w) == Acquire(w, "rl_lock", "rl_check")

\* The admissions of client ip whose timestamp lies in the 60 s ending at t.
AdmittedWithin(ip, t) ==
    {i \in DOMAIN admissions :
        /\ admissions[i].ip = ip
        /\ admissions[i].t >= t - WINDOW_SECONDS
        /\ admissions[i].t <= t}

\* RateLimitCheck that returns False without releasing _lock.
RateLimitCheckKeepsLock(w) ==
    /\ pc[w] = "rl_check"
    /\ lock = w
    /\ LET ip == req[w].client_ip
           d == rate_limit_decide(hits_of(ip_hits, ip), now[w], RATE_LIMIT_RPM)
       IN /\ ip_hits' = hits_put(ip_hits, ip, d.hits)
          /\ calls' = [calls EXCEPT
                         ![w].rate_limit = IF d.ok THEN "admitted" ELSE "rejected",
                         ![w].seen = Cardinality(AdmittedWithin(ip, now[w])),
                         ![w].aged =
                            \/ hits_of(ip_hits, ip) = <<>>
                            \/ \E i \in DOMAIN hits_of(ip_hits, ip) :
                                  hits_of(ip_hits, ip)[i] < now[w] - WINDOW_SECONDS,
                         ![w].stale =
                            \E i \in DOMAIN d.hits : d.hits[i] < now[w] - WINDOW_SECONDS,
                         ![w].recorded =
                            Len(d.hits) - Len(prune(hits_of(ip_hits, ip),
                                                    now[w] - WINDOW_SECONDS))]
          /\ admissions' = IF d.ok
                           THEN Append(admissions, [ip |-> ip, t |-> now[w]])
                           ELSE admissions
          /\ IF d.ok
             THEN /\ pc' = [pc EXCEPT ![w] = "validate"]
                  /\ UNCHANGED <<exc, response>>
             ELSE Raise(w, HTTPException(429, "Rate limit exceeded"), "try")
    /\ lock' = IF rate_limit_decide(hits_of(ip_hits, req[w].client_ip), now[w],
                                   RATE_LIMIT_RPM).ok
               THEN 0 ELSE lock
    /\ now' = [now EXCEPT ![w] = 0]    \* rate_limit_ok has returned
    /\ Stepped
    /\ UNCHANGED <<cfgvars, ledger, clock, counters, entered, req, latency_ms,
                   resp, stages>>

\* main.py:95-103 under the lock, then 164-165
RateLimitCheck(w) ==
    /\ pc[w] = "rl_check"
    /\ lock = w
    /\ LET ip == req[w].client_ip
           d == rate_limit_decide(hits_of(ip_hits, ip), now[w], RATE_LIMIT_RPM)
       IN /\ ip_hits' = hits_put(ip_hits, ip, d.hits)
          /\ calls' = [calls EXCEPT
                         ![w].rate_limit = IF d.ok THEN "admitted" ELSE "rejected",
                         ![w].seen = Cardinality(AdmittedWithin(ip, now[w])),
                         ![w].aged =
                            \/ hits_of(ip_hits, ip) = <<>>
                            \/ \E i \in DOMAIN hits_of(ip_hits, ip) :
                                  hits_of(ip_hits, ip)[i] < now[w] - WINDOW_SECONDS,
                         ![w].stale =
                            \E i \in DOMAIN d.hits : d.hits[i] < now[w] - WINDOW_SECONDS,
                         ![w].recorded =
                            Len(d.hits) - Len(prune(hits_of(ip_hits, ip),
                                                    now[w] - WINDOW_SECONDS))]
          /\ admissions' = IF d.ok
                           THEN Append(admissions, [ip |-> ip, t |-> now[w]])
                           ELSE admissions
          /\ IF d.ok
             THEN /\ pc' = [pc EXCEPT ![w] = "validate"]
                  /\ UNCHANGED <<exc, response>>
             ELSE Raise(w, HTTPException(429, "Rate limit exceeded"), "try")
    /\ lock' = 0
    /\ now' = [now EXCEPT ![w] = 0]    \* rate_limit_ok has returned
    /\ Stepped
    /\ UNCHANGED <<cfgvars, ledger, clock, counters, entered, req, latency_ms,
                   resp, stages>>

\* Validate that gives the slot back: a request rejected for its message
\* has its timestamp taken out of the client's window.
ValidateRefund(w, msgs) ==
    /\ pc[w] = "validate"
    /\ stages' = [stages EXCEPT ![w] = Append(@, "validation")]
    /\ \E message \in msgs :
          /\ req' = [req EXCEPT ![w].message = message]
          /\ LET user_prompt == strip(message)
                 q == hits_of(ip_hits, req[w].client_ip) IN
             IF user_prompt = <<>>
             THEN /\ Raise(w, HTTPException(400, "message cannot be empty"), "try")
                  /\ ip_hits' = hits_put(ip_hits, req[w].client_ip,
                                         SubSeq(q, 1, Len(q) - 1))
             ELSE IF user_prompt = <<FORCE_500>>
             THEN /\ Raise(w, PyException("RuntimeError", "Forced 500 for monitor test"), "try")
                  /\ ip_hits' = ip_hits
             ELSE /\ pc' = [pc EXCEPT ![w] = "count_lock"]
                  /\ UNCHANGED <<exc, response, ip_hits>>
    /\ Stepped
    /\ UNCHANGED <<cfgvars, ledger, clock, lock, counters, entered, now,
                   latency_ms, resp, calls, admissions>>

\* main.py:167-173
Validate(w, msgs) ==
    /\ pc[w] = "validate"
    /\ stages' = [stages EXCEPT ![w] = Append(@, "validation")]
    /\ \E message \in msgs :
          /\ req' = [req EXCEPT ![w].message = message]
          /\ LET user_prompt == strip(message) IN
             IF user_prompt = <<>>
             THEN Raise(w, HTTPException(400, "message cannot be empty"), "try")
             ELSE IF user_prompt = <<FORCE_500>>
             THEN Raise(w, PyException("RuntimeError", "Forced 500 for monitor test"), "try")
             ELSE /\ pc' = [pc EXCEPT ![w] = "count_lock"]
                  /\ UNCHANGED <<exc, response>>
    /\ Stepped
    /\ UNCHANGED <<cfgvars, ledger, clock, lock, counters, ip_hits, entered, now,
                   latency_ms, resp, calls, admissions>>


\* main.py:175-176
CountAcquire(w) == Acquire(w, "count_lock", "count")

CountRequest(w) ==
    /\ pc[w] = "count"
    /\ lock = w
    /\ TOTAL_REQUESTS' = TOTAL_REQUESTS + 1
    /\ calls' = [calls EXCEPT ![w].inc_requests = @ + 1]
    /\ lock' = 0
    /\ pc' = [pc EXCEPT ![w] = "invoke"]
    /\ Stepped
    /\ UNCHANGED <<cfgvars, ledger, clock, TOTAL_ERRORS, TOTAL_LATENCY_MS, ip_hits,
                   entered, locals, stages, admissions>>

\* Invoke with one retry: a failed generate_content call is made again.
InvokeWithRetry(w, outcomes) ==
    /\ pc[w] = "invoke"
    /\ stages' = [stages EXCEPT ![w] = Append(@, "inference")]
    /\ \E out \in outcomes, again \in outcomes :
          /\ calls' = [calls EXCEPT ![w].inference =
                         IF out = "raises" THEN @ + 2 ELSE @ + 1]
          /\ LET last == IF out = "raises" THEN again ELSE out IN
             IF last = "raises"
             THEN /\ Raise(w, PyException("ServiceUnavailable", "503 backend unavailable"), "try")
                  /\ resp' = resp
             ELSE /\ resp' = [resp EXCEPT ![w] = last]
                  /\ pc' = [pc EXCEPT ![w] = "ok_latency"]
                  /\ UNCHANGED <<exc, response>>
    /\ Stepped
    /\ UNCHANGED <<cfgvars, ledger, clock, lock, counters, ip_hits, entered, req, now,
                   latency_ms, admissions>>

\* main.py:178-185  init_vertex_model(), then one generate_content call
Invoke(w, outcomes) ==
    /\ pc[w] = "invoke"
    /\ stages' = [stages EXCEPT ![w] = Append(@, "inference")]
    /\ IF ~GOOGLE_CLOUD_PROJECT
       THEN /\ Raise(w, PyException("RuntimeError", "Missing GOOGLE_CLOUD_PROJECT env var"), "try")
            /\ UNCHANGED <<resp, calls>>
       ELSE /\ calls' = [calls EXCEPT ![w].inference = @ + 1]
            /\ \E out \in outcomes :
                  IF out = "raises"
                  THEN /\ Raise(w, PyException("ServiceUnavailable", "503 backend unavailable"), "try")
                       /\ resp' = resp
                  ELSE /\ resp' = [resp EXCEPT ![w] = out]
                       /\ pc' = [pc EXCEPT ![w] = "ok_latency"]
                       /\ UNCHANGED <<exc, response>>
    /\ Stepped
    /\ UNCHANGED <<cfgvars, ledger, clock, lock, counters, ip_hits, entered, req, now,
                   latency_ms, admissions>>

\* main.py:190, 233, 283  latency_ms = int((time.time() - start) * 1000)
elapsed_ms(t, start) == (t - start) * 1000

MeasureLatency(w, at, next) ==
    /\ pc[w] = at
    /\ latency_ms' = [latency_ms EXCEPT ![w] = elapsed_ms(clock, req[w].start)]
    /\ pc' = [pc EXCEPT ![w] = next]
    /\ Stepped
    /\ UNCHANGED <<cfgvars, ledger, clock, lock, counters, ip_hits, entered, req, now,
                   exc, resp, response, calls, stages, admissions>>

\* main.py:193-194 (is_error FALSE) and 235-237, 285-287 (is_error TRUE)
RecordCompletion(w, at, next, is_error) ==
    /\ pc[w] = at
    /\ lock = w
    /\ TOTAL_LATENCY_MS' = TOTAL_LATENCY_MS + latency_ms[w]
    /\ TOTAL_ERRORS' = IF is_error THEN TOTAL_ERRORS + 1 ELSE TOTAL_ERRORS
    /\ calls' = [calls EXCEPT ![w].inc_latency = @ + 1,
                              ![w].inc_errors = IF is_error THEN @ + 1 ELSE @]
    /\ lock' = 0
    /\ pc' = [pc EXCEPT ![w] = next]
    /\ Stepped
    /\ UNCHANGED <<cfgvars, ledger, clock, TOTAL_REQUESTS, ip_hits, entered, locals,
                   stages, admissions>>

\* main.py:190-229  the success path
OkLatency(w) == MeasureLatency(w, "ok_latency", "ok_lock")
OkAcquire(w) == Acquire(w, "ok_lock", "ok_record")
OkRecord(w) == RecordCompletion(w, "ok_record", "ok_gauge", FALSE)
OkEmitGauge(w) == Emit(w, "ok_gauge", "gauge", "try", "ok_count")
OkEmitCount(w) == Emit(w, "ok_count", "outcome_count", "try", "ok_log")
OkEmitLog(w) == Emit(w, "ok_log", "log", "try", "ok_return")

\* main.py:191  answer_text = getattr(resp, "text", None) or ""
answer_text(r) == IF r = "text" THEN ANSWER ELSE ""

OkReturn(w) ==
    /\ pc[w] = "ok_return"
    /\ response' = [response EXCEPT ![w] =
                      ChatResponse(req[w].request_id, latency_ms[w], answer_text(resp[w]))]
    /\ pc' = [pc EXCEPT ![w] = "done"]
    /\ Stepped
    /\ UNCHANGED <<cfgvars, ledger, clock, lock, counters, ip_hits, entered, req, now,
                   latency_ms, exc, resp, calls, stages, admissions>>

\* main.py:232-279  except HTTPException as he
HeLatency(w) == MeasureLatency(w, "he_latency", "he_lock")
HeAcquire(w) == Acquire(w, "he_lock", "he_record")
HeRecord(w) == RecordCompletion(w, "he_record", "he_gauge", TRUE)
HeEmitGauge(w) == Emit(w, "he_gauge", "gauge", "handler", "he_count")
HeEmitCount(w) == Emit(w, "he_count", "outcome_count", "handler", "he_log")
HeEmitLog(w) == Emit(w, "he_log", "log", "handler", "he_raise")

HeRaise(w) ==
    /\ pc[w] = "he_raise"
    /\ response' = [response EXCEPT ![w] = ErrorResponse(exc[w])]
    /\ pc' = [pc EXCEPT ![w] = "done"]
    /\ Stepped
    /\ UNCHANGED <<cfgvars, ledger, clock, lock, counters, ip_hits, entered, req, now,
                   latency_ms, exc, resp, calls, stages, admissions>>

\* main.py:282-329  except Exception as e
ExLatency(w) == MeasureLatency(w, "ex_latency", "ex_lock")
ExAcquire(w) == Acquire(w, "ex_lock", "ex_record")
ExRecord(w) == RecordCompletion(w, "ex_record", "ex_gauge", TRUE)
ExEmitGauge(w) == Emit(w, "ex_gauge", "gauge", "handler", "ex_count")
ExEmitCount(w) == Emit(w, "ex_count", "outcome_count", "handler", "ex_log")
ExEmitLog(w) == Emit(w, "ex_log", "log", "handler", "ex_raise")

\* internal_error_response with the exception's text in the detail.
exception_text_response(rid, e) == [status |-> 500, detail |-> <<"Internal error: ", e.text>>]

\* main.py:329  raise HTTPException(500, f"Internal error (request_id=...)")
internal_error_response(rid, e) == [status |-> 500, detail |-> InternalErrorDetail(rid)]

ExRaise(w) ==
    /\ pc[w] = "ex_raise"
    /\ response' = [response EXCEPT ![w] =
                      internal_error_response(req[w].request_id, exc[w])]
    /\ pc' = [pc EXCEPT ![w] = "done"]
    /\ Stepped
    /\ UNCHANGED <<cfgvars, ledger, clock, lock, counters, ip_hits, entered, req, now,
                   latency_ms, exc, resp, calls, stages, admissions>>

\* The server sends the response and the thread is free for the next request.
Respond(w) ==
    /\ pc[w] = "done"
    /\ pc' = [pc EXCEPT ![w] = "idle"]
    /\ req' = [req EXCEPT ![w] = NoRequest]
    /\ now' = [now EXCEPT ![w] = 0]
    /\ latency_ms' = [latency_ms EXCEPT ![w] = 0]
    /\ exc' = [exc EXCEPT ![w] = NoExc]
    /\ resp' = [resp EXCEPT ![w] = "none"]
    /\ response' = [response EXCEPT ![w] = NoResponse]
    /\ calls' = [calls EXCEPT ![w] = NoCalls]
    /\ stages' = [stages EXCEPT ![w] = <<>>]
    /\ ledger' = [failed |-> ledger.failed + (IF response[w].status = 200 THEN 0 ELSE 1),
                  reached |-> ledger.reached +
                     (IF \E i \in DOMAIN stages[w] : stages[w][i] = "inference"
                      THEN 1 ELSE 0),
                  latency |-> ledger.latency + latency_ms[w]]
    /\ Stepped
    /\ UNCHANGED <<cfgvars, clock, lock, counters, ip_hits, entered, admissions>>

\* round2 that cuts the digits after the second decimal off.
trunc2(n, d) == (100 * n) \div d

\* main.py:118, 122  round(TOTAL_LATENCY_MS / TOTAL_REQUESTS, 2) in
\* hundredths: the nearest hundredth of n / d, a tie going to the even one
\* (a tie needs d divisible by 8, and n / d is then exact in binary).
round2(n, d) ==
    LET q == (100 * n) \div d
        r == (100 * n) % d
    IN IF 2 * r > d \/ (2 * r = d /\ q % 2 = 1) THEN q + 1 ELSE q

\* main.py:118-126  the dict metrics() returns; avg_latency_ms in hundredths.
metrics_response(requests, errors, latency, rpm) ==
    [requests_total |-> requests,
     errors_total |-> errors,
     avg_latency_ms |-> IF requests # 0 THEN round2(latency, requests) ELSE 0,
     model |-> GEMINI_MODEL,
     location |-> GOOGLE_CLOUD_LOCATION,
     rate_limit_rpm |-> rpm]

\* metrics() that counts the snapshots it has served in the counters.
MetricsCounted ==
    /\ lock = 0
    /\ observed.run < MaxSnapshots
    /\ TOTAL_REQUESTS' = TOTAL_REQUESTS + 1
    /\ snapshot' = metrics_response(TOTAL_REQUESTS + 1, TOTAL_ERRORS,
                                    TOTAL_LATENCY_MS, RATE_LIMIT_RPM)
    /\ observed' = [run |-> observed.run + 1,
                    counters |-> <<TOTAL_REQUESTS + 1, TOTAL_ERRORS, TOTAL_LATENCY_MS>>,
                    inflight |-> [w \in Threads |->
                                    <<calls[w].inc_requests, calls[w].inc_latency,
                                      calls[w].inc_errors>>]]
    /\ UNCHANGED <<cfgvars, clock, lock, TOTAL_ERRORS, TOTAL_LATENCY_MS, ip_hits,
                   entered, pc, locals, calls, stages, admissions, ledger>>

\* metrics() reading the counters without taking _lock.
MetricsUnlocked ==
    /\ observed.run < MaxSnapshots
    /\ snapshot' = metrics_response(TOTAL_REQUESTS, TOTAL_ERRORS,
                                    TOTAL_LATENCY_MS, RATE_LIMIT_RPM)
    /\ observed' = [run |-> observed.run + 1,
                    counters |-> counters,
                    inflight |-> [w \in Threads |->
                                    <<calls[w].inc_requests, calls[w].inc_latency,
                                      calls[w].inc_errors>>]]
    /\ UNCHANGED <<cfgvars, clock, lock, counters, ip_hits, entered, pc, locals,
                   calls, stages, admissions, ledger>>

\* main.py:115-126  GET /metrics: the whole body runs under _lock.
Metrics ==
    /\ lock = 0
    /\ observed.run < MaxSnapshots
    /\ snapshot' = metrics_response(TOTAL_REQUESTS, TOTAL_ERRORS,
                                    TOTAL_LATENCY_MS, RATE_LIMIT_RPM)
    /\ observed' = [run |-> observed.run + 1,
                    counters |-> counters,
                    inflight |-> [w \in Threads |->
                                    <<calls[w].inc_requests, calls[w].inc_latency,
                                      calls[w].inc_errors>>]]
    /\ UNCHANGED <<cfgvars, clock, lock, counters, ip_hits, entered, pc, locals,
                   calls, stages, admissions, ledger>>

Handle(w) ==
        \/ EmitRequestsCount(w)
        \/ RateLimitNow(w)
        \/ RateLimitAcquire(w)
        \/ RateLimitCheck(w)
        \/ CountAcquire(w)
        \/ CountRequest(w)
        \/ OkLatency(w) \/ OkAcquire(w) \/ OkRecord(w)
        \/ OkEmitGauge(w) \/ OkEmitCount(w) \/ OkEmitLog(w) \/ OkReturn(w)
        \/ HeLatency(w) \/ HeAcquire(w) \/ HeRecord(w)
        \/ HeEmitGauge(w) \/ HeEmitCount(w) \/ HeEmitLog(w) \/ HeRaise(w)
        \/ ExLatency(w) \/ ExAcquire(w) \/ ExRecord(w)
        \/ ExEmitGauge(w) \/ ExEmitCount(w) \/ ExEmitLog(w) \/ ExRaise(w)
        \/ Respond(w)

\* The whole pipeline on every kind of request from one client, with an
\* application credential and a telemetry credential configured.
Enter(w) == Receive(w, {"10.0.0.1"}, MaxRequests)
Authenticate(w) == ApiKeyGate(w, ApiKeys)
CheckMessage(w) == Validate(w, Messages)
Generate(w) == Invoke(w, InferenceOutcomes)
Clock == Tick({0, 61})

Init == Configured({"secret"}, {TRUE}, {TRUE}, {1}) /\ Started

Next ==
    \/ Clock
    \/ \E w \in Threads :
          Enter(w) \/ Authenticate(w) \/ CheckMessage(w) \/ Generate(w) \/ Handle(w)

Spec == Init /\ [][Next]_vars


\* The pipeline under fair scheduling, within one clock instant: a thread
\* that can take a step of the request it handles eventually takes one
\* (collaborators return or fail, the lock is granted when free); no new
\* request has to arrive.
Begin(w) == Receive(w, {"10.0.0.1"}, MaxRequests)
Gate(w) == ApiKeyGate(w, {"secret", "wrong"})
Vet(w) == Validate(w, {<<>>, <<"hello">>, <<FORCE_500>>})
Produce(w) == Invoke(w, {"text", "raises"})
ThreadStep(w) == Gate(w) \/ Vet(w) \/ Produce(w) \/ Handle(w)

NextFair == \E w \in Threads : Begin(w) \/ ThreadStep(w)

SpecFair == Init /\ [][NextFair]_vars /\ \A w \in Threads : WF_vars(ThreadStep(w))


\* The rate limiter under load: requests of one client that pass the
\* credential gate (none is configured), arriving around the edge of the
\* 60 s window, with the telemetry sink switched off and the inference
\* backend configured or not.
Arrive(w) == Receive(w, {"10.0.0.1"}, MaxArrivals)
Admit(w) == ApiKeyGate(w, {NoKey})
ReadMessage(w) == Validate(w, {<<"hello">>})
Answer(w) == Invoke(w, {"text"})
WallClock == Tick(Instants)

InitRL == Configured({NoKey}, {FALSE}, BOOLEAN, 1..MaxLimit) /\ Started

NextRL ==
    \/ WallClock
    \/ \E w \in Threads :
          Arrive(w) \/ Admit(w) \/ ReadMessage(w) \/ Answer(w) \/ Handle(w)

SpecRL == InitRL /\ [][NextRL]_vars


\* The diagnostics endpoint read while requests of one client are handled
\* within one clock instant, with no credential required and a telemetry
\* credential configured.
Call(w) == Receive(w, {"10.0.0.1"}, MaxCalls)
Pass(w) == ApiKeyGate(w, {NoKey})
ReadPrompt(w) == Validate(w, {<<>>, <<"hello">>})
Infer(w) == Invoke(w, {"text", "raises"})

InitM == Configured({NoKey}, {TRUE}, {TRUE}, {MaxCalls}) /\ Started

NextM ==
    \/ Metrics
    \/ \E w \in Threads :
          Call(w) \/ Pass(w) \/ ReadPrompt(w) \/ Infer(w) \/ Handle(w)

SpecM == InitM /\ [][NextM]_vars


\* Two clients at the rate limiter, before and after the 60 s window has
\* passed, with a limit of one request per window, no credential required,
\* the telemetry sink switched off.
Visit(w) == Receive(w, Clients, MaxVisits)
Allow(w) == ApiKeyGate(w, {NoKey})
TakeMessage(w) == Validate(w, {<<"hello">>})
Reply(w) == Invoke(w, {"text", "raises"})
Later == Tick({0, 61})

InitIso == Configured({NoKey}, {FALSE}, {TRUE}, {1}) /\ Started

NextIso ==
    \/ Later
    \/ \E w \in Threads :
          Visit(w) \/ Allow(w) \/ TakeMessage(w) \/ Reply(w) \/ Handle(w)

SpecIso == InitIso /\ [][NextIso]_vars


\* metrics() applied to the counters a quiet server can hold.
InitAvg ==
    /\ Configured({NoKey}, {FALSE}, {TRUE}, {MaxTotal + 2})
    /\ \E r \in 0..MaxTotal, e \in 0..1, l \in 0..MaxLatencySum :
          /\ (r = 0 /\ e = 0) => l = 0
          /\ Loaded(r, e, l)

NextAvg == Metrics

SpecAvg == InitAvg /\ [][NextAvg]_vars


\* --------------------------------------------------------------- claims
Busy(w) == pc[w] # "idle"
Finished(w) == pc[w] = "done"
Unhandled(w) == "unhandled" \in DOMAIN response[w]
Caught(w, code) == exc[w].kind = "HTTPException" /\ exc[w].status_code = code

\* What the request presented, once chat() has read it.
KeyRead(w) == req[w].x_api_key # Unread
KeyInvalid(w) ==
    /\ KeyRead(w)
    /\ APP_API_KEY \notin {NoKey, ""}
    /\ req[w].x_api_key # APP_API_KEY
MessageRead(w) == req[w].message # <<Unread>>
NotSpace(c) == c # SP
Words(m) == SelectSeq(m, NotSpace)
MessageEmpty(w) == MessageRead(w) /\ Words(req[w].message) = <<>>
MessageSentinel(w) == MessageRead(w) /\ Words(req[w].message) = <<FORCE_500>>

\* C1: every request that enters chat() has, when it terminates, been
\* recorded in the counters exactly once and has had exactly one outcome
\* count metric, exactly one latency gauge and exactly one telemetry log
\* emitted for it, whichever stage terminated it; and never more than one of
\* each while it runs.
C1_ExactlyOnce ==
    \A w \in Threads :
        /\ calls[w].inc_latency <= 1
        /\ calls[w].outcome_count <= 1
        /\ calls[w].gauge <= 1
        /\ calls[w].log <= 1
        /\ Finished(w) =>
              /\ calls[w].inc_latency = 1
              /\ calls[w].outcome_count = 1
              /\ calls[w].gauge = 1
              /\ calls[w].log = 1

\* C2: for every client and every instant T, the admissions of that client
\* whose admission time lies in the 60 seconds ending at T are at most
\* RATE_LIMIT_RPM (a sliding window), under any interleaving.
C2_SlidingWindowBound ==
    \A ip \in Clients, T \in Instants :
        Cardinality(AdmittedWithin(ip, T)) <= RATE_LIMIT_RPM

\* C3: a request whose client already has RATE_LIMIT_RPM admissions in the
\* 60 seconds ending at the request's own timestamp is rejected; the
\* rejection is a 429 and records no timestamp; and a request that finds its
\* client's oldest recorded timestamp more than 60 seconds old (or none
\* recorded) is admitted.
C3_RejectedAtLimit ==
    \A w \in Threads :
        /\ (calls[w].rate_limit # "none" /\ calls[w].seen >= RATE_LIMIT_RPM)
              => calls[w].rate_limit = "rejected"
        /\ calls[w].rate_limit = "rejected" =>
              /\ Caught(w, 429)
              /\ calls[w].recorded = 0
        /\ (calls[w].rate_limit # "none" /\ calls[w].aged)
              => calls[w].rate_limit = "admitted"

\* C4: the guards of one request run in the order auth, rate limit,
\* validation, inference call; the first guard that fails decides the outcome
\* and no later stage runs (a bad credential gives 401 without the limiter or
\* the message being looked at, a rate-limited request gives 429 without the
\* message being read).
GuardOrder == <<"auth", "rate_limit", "validation", "inference">>
IsPrefix(s, t) == Len(s) <= Len(t) /\ s = SubSeq(t, 1, Len(s))

C4_GuardOrder ==
    \A w \in Threads :
        /\ IsPrefix(stages[w], GuardOrder)
        /\ KeyInvalid(w) =>
              /\ Caught(w, 401)
              /\ stages[w] = <<"auth">>
              /\ calls[w].rate_limit = "none"
              /\ ~MessageRead(w)
        /\ calls[w].rate_limit = "rejected" =>
              /\ Caught(w, 429)
              /\ stages[w] = <<"auth", "rate_limit">>
              /\ ~MessageRead(w)
        /\ MessageEmpty(w) =>
              /\ Caught(w, 400)
              /\ stages[w] = <<"auth", "rate_limit", "validation">>
        /\ MessageSentinel(w) =>
              /\ exc[w].kind = "Exception"
              /\ stages[w] = <<"auth", "rate_limit", "validation">>
        /\ (KeyInvalid(w) \/ calls[w].rate_limit = "rejected"
              \/ MessageEmpty(w) \/ MessageSentinel(w)) => calls[w].inference = 0

\* A request with a bad credential has been answered 401 although a window
\* of its client exists already.
C4_Witness ==
    \E w \in Threads :
        /\ Finished(w) /\ KeyInvalid(w) /\ response[w].status = 401
        /\ DOMAIN ip_hits # {}

\* C5: with an application credential configured, a request whose header is
\* missing or wrong is rejected by the gate as unauthorized (401), and no
\* step of that request changes any client's window (none is created, no
\* timestamp is recorded) or requests_total.
C5_AuthRejectionFrame ==
    /\ [](\A w \in Threads :
            KeyInvalid(w) => Caught(w, 401) /\ calls[w].rate_limit = "none")
    /\ [][\A w \in Threads :
            ((KeyInvalid(w) \/ KeyInvalid(w)') /\ pc'[w] # pc[w])
               => (ip_hits' = ip_hits /\ TOTAL_REQUESTS' = TOTAL_REQUESTS)]_vars

\* A request without the header has run to its 401 while no window exists.
C5_Witness ==
    \E w \in Threads :
        /\ Finished(w) /\ req[w].x_api_key = NoKey /\ KeyInvalid(w)
        /\ response[w].status = 401
        /\ ip_hits = <<>> /\ TOTAL_REQUESTS = 0

\* C6: the inference collaborator is called at most once per request, only
\* for a request that passed the credential gate, was admitted by the rate
\* limiter and whose trimmed message is neither empty nor the force_500
\* sentinel; a failed call is not retried.
C6_SingleInferenceCall ==
    \A w \in Threads :
        /\ calls[w].inference <= 1
        /\ calls[w].inference = 1 =>
              /\ KeyRead(w) /\ ~KeyInvalid(w)
              /\ calls[w].rate_limit = "admitted"
              /\ MessageRead(w) /\ ~MessageEmpty(w) /\ ~MessageSentinel(w)

\* A request whose single inference call failed has been answered.
C6_Witness ==
    \E w \in Threads :
        /\ Finished(w) /\ calls[w].inference = 1
        /\ exc[w].kind = "Exception" /\ exc[w].type = "ServiceUnavailable"

\* C7: every request ends in the caller-visible status its outcome maps to
\* (401, 429, 400, 500 for force_500 and for an inference failure, the
\* payload {request_id, model, latency_ms, answer} on success) and nothing
\* leaves chat() as an unhandled fault.
C7_StatusByOutcome ==
    \A w \in Threads : Finished(w) =>
        /\ ~Unhandled(w)
        /\ KeyInvalid(w) => response[w].status = 401
        /\ calls[w].rate_limit = "rejected" => response[w].status = 429
        /\ MessageEmpty(w) => response[w].status = 400
        /\ MessageSentinel(w) => response[w].status = 500
        /\ (calls[w].inference = 1 /\ resp[w] = "none") => response[w].status = 500
        /\ resp[w] # "none" =>
              response[w] = [status |-> 200, request_id |-> req[w].request_id,
                             model |-> GEMINI_MODEL, latency_ms |-> latency_ms[w],
                             answer |-> IF resp[w] = "text" THEN ANSWER ELSE ""]

\* C8: a response with status 500 carries only a generic message and at most
\* the request id, whatever the type and text of the exception behind it (a
\* forced 500 and an inference failure look alike), and an answer is
\* returned only by a request whose inference call succeeded.
C8_GenericInternalError ==
    \A w \in Threads : Finished(w) =>
        /\ response[w].status = 500 =>
              response[w].detail \in
                 {<<"Internal error (request_id=", req[w].request_id, ")">>,
                  <<"Internal Server Error">>}
        /\ "answer" \in DOMAIN response[w] =>
              /\ response[w].status = 200
              /\ exc[w] = NoExc
              /\ resp[w] \in {"text", "no_text"}

\* A forced 500 has been answered with the generic message and the id.
C8_Witness ==
    \E w \in Threads :
        /\ Finished(w) /\ MessageSentinel(w) /\ ~Unhandled(w)
        /\ exc[w].text = "Forced 500 for monitor test"
        /\ response[w].status = 500

\* C9: no outcome of a telemetry call (2xx, non-2xx, transport failure,
\* timeout, no credential) becomes an error of the pipeline: none is caught
\* by chat()'s handlers and none leaves chat().
C9_TelemetryAbsorbed ==
    \A w \in Threads : ~Unhandled(w) /\ exc[w] # SinkError

\* C10: requests_total, errors_total and the cumulative latency never
\* decrease, and no request increments the same field more than once.
C10_CountersOncePerRequest ==
    /\ [](\A w \in Threads :
            /\ calls[w].inc_requests <= 1
            /\ calls[w].inc_errors <= 1
            /\ calls[w].inc_latency <= 1)
    /\ [][/\ TOTAL_REQUESTS' >= TOTAL_REQUESTS
          /\ TOTAL_ERRORS' >= TOTAL_ERRORS
          /\ TOTAL_LATENCY_MS' >= TOTAL_LATENCY_MS]_vars

\* C11: once every request has been answered, errors_total is the number of
\* requests that did not succeed, requests_total the number that passed
\* validation and reached the inference stage, and the cumulative latency the
\* sum of their latencies, under any interleaving; and a successful request
\* has added exactly 1 to requests_total and nothing to errors_total.
Quiescent == \A w \in Threads : pc[w] = "idle"

C11_NoLostUpdate ==
    /\ Quiescent =>
          /\ TOTAL_ERRORS = ledger.failed
          /\ TOTAL_REQUESTS = ledger.reached
          /\ TOTAL_LATENCY_MS = ledger.latency
    /\ \A w \in Threads :
          (Finished(w) /\ response[w].status = 200) =>
              /\ calls[w].inc_requests = 1
              /\ calls[w].inc_errors = 0

\* C12: a snapshot never sees the counter updates of a request partially
\* applied: what a request in flight had added to requests_total, to the
\* cumulative latency and to errors_total when the snapshot was taken is
\* either nothing or everything the request adds (one request and its
\* latency, with or without an error; or its latency and an error).
C12_SnapshotNotTorn ==
    \A w \in Threads :
        observed.inflight[w] \in {<<0, 0, 0>>, <<1, 1, 0>>, <<1, 1, 1>>, <<0, 1, 1>>}

\* C13: avg_latency_ms of a snapshot is the cumulative recorded latency
\* divided by requests_total, rounded to two decimals (it is within half a
\* hundredth of the quotient), and 0 when requests_total is 0.
C13_AverageLatency ==
    snapshot # NoSnapshot =>
        LET R == observed.counters[1]
            L == observed.counters[3]
            h == snapshot.avg_latency_ms      \* in hundredths of a ms
        IN /\ snapshot.requests_total = R
           /\ R = 0 => h = 0
           /\ R > 0 => /\ 2 * (h * R - 100 * L) <= R
                       /\ 2 * (100 * L - h * R) <= R

\* A snapshot whose average had to be rounded up.
C13_Witness ==
    /\ snapshot # NoSnapshot
    /\ snapshot.requests_total = 3
    /\ snapshot.avg_latency_ms * 3 > 100 * observed.counters[3]

\* C14: a snapshot changes no shared state (counters, client windows, the
\* lock), and a snapshot taken with no request step since the one before it
\* returns the same values.
C14_SnapshotReadOnly ==
    [][observed'.run > observed.run =>
          /\ UNCHANGED <<counters, ip_hits, lock>>
          /\ observed.run > 0 => snapshot' = snapshot]_vars

\* Two snapshots in a row after a request was counted and its window exists.
C14_Witness ==
    /\ observed.run = 2
    /\ snapshot.requests_total > 0
    /\ ip_hits # <<>>

\* C15: shared state (a client window, a counter) changes only in a step of
\* the thread that holds the lock, a snapshot is read only while no request
\* holds it, and a thread holds the lock only between taking it and the
\* in-memory update that follows: never where it calls the inference
\* backend or the telemetry sink.
LockHeldAt == {"rl_check", "count", "ok_record", "he_record", "ex_record"}
OutboundCallAt ==
    {"emit_requests", "invoke", "ok_gauge", "ok_count", "ok_log",
     "he_gauge", "he_count", "he_log", "ex_gauge", "ex_count", "ex_log"}

C15_LockDiscipline ==
    /\ [](\A w \in Threads :
            /\ lock = w => pc[w] \in LockHeldAt
            /\ pc[w] \in OutboundCallAt => lock # w)
    /\ [][/\ (ip_hits' # ip_hits \/ counters' # counters) =>
                (lock \in Threads /\ pc'[lock] # pc[lock] /\ lock' = 0)
          /\ observed'.run > observed.run => lock = 0]_vars

\* A snapshot has just been read while one request is calling the
\* inference backend and another one, already recorded as an error, the
\* telemetry sink.
C15_Witness ==
    /\ observed.run > 0
    /\ lock = 0
    /\ \E w \in Threads, v \in Threads :
          pc[w] = "invoke" /\ pc[v] = "he_gauge" /\ calls[v].inc_errors = 1

\* C16: in every reachable state every client's window is ordered
\* oldest-first: its timestamps never decrease from head to tail.
C16_WindowOrdered ==
    \A ip \in DOMAIN ip_hits :
        \A i \in DOMAIN ip_hits[ip], j \in DOMAIN ip_hits[ip] :
            i < j => ip_hits[ip][i] <= ip_hits[ip][j]

\* C17: right after an admission check made at time now, no timestamp left
\* in the client's window is older than now - 60 s.
C17_WindowFresh ==
    \A w \in Threads : ~calls[w].stale

\* C18: under fair scheduling every request that entered chat() eventually
\* has its one response, and a thread that holds the lock eventually
\* releases it, on every path.
C18_Termination ==
    /\ [](\A w \in Threads : Finished(w) => response[w] # NoResponse)
    /\ \A w \in Threads : (pc[w] # "idle") ~> Finished(w)
    /\ \A w \in Threads : (lock = w) ~> (lock # w)

\* A request rejected by the limiter has been answered 429 and the lock is
\* free.
C18_Witness ==
    \E w \in Threads :
        /\ Finished(w) /\ calls[w].rate_limit = "rejected"
        /\ response[w].status = 429 /\ lock = 0

\* C19: an admitted request has its timestamp at the tail of its client's
\* window before its message is read, and no later step of any request
\* takes a timestamp out again: only an admission check changes a window,
\* and what it drops from the head is more than 60 s older than the time of
\* the check.  So a request that then fails validation, hits the sentinel or
\* fails in the inference call keeps its slot.
Window(w) == hits_of(ip_hits, req[w].client_ip)
IsSuffix(s, t) == Len(s) <= Len(t) /\ s = SubSeq(t, Len(t) - Len(s) + 1, Len(t))

C19_SlotKept ==
    /\ [](\A w \in Threads :
            calls[w].rate_limit = "admitted" => calls[w].recorded = 1)
    /\ [][\A w \in Threads : pc'[w] # pc[w] =>
            IF pc[w] = "rl_check"
            THEN LET q == Window(w)
                     kept == IF pc'[w] = "validate"
                             THEN SubSeq(Window(w)', 1, Len(Window(w)') - 1)
                             ELSE Window(w)'
                 IN /\ IsSuffix(kept, q)
                    /\ \A i \in 1..(Len(q) - Len(kept)) :
                          q[i] < now[w] - WINDOW_SECONDS
                    /\ pc'[w] = "validate" =>
                          /\ Window(w)' # <<>>
                          /\ Window(w)'[Len(Window(w)')] = now[w]
                          /\ ~MessageRead(w)
            ELSE ip_hits' = ip_hits]_vars

\* A request is rejected by the limiter because the one slot is taken by a
\* request that was rejected for its empty message.
C19_Witness ==
    \E w \in Threads, v \in Threads :
        /\ Finished(v) /\ MessageEmpty(v) /\ response[v].status = 400
        /\ calls[w].rate_limit = "rejected"
        /\ Len(hits_of(ip_hits, "10.0.0.1")) = 1

\* C20: whether a client's request is admitted depends only on that
\* client's own admitted requests: the window a check consults holds only
\* timestamps of admissions of the same client, the decision is made from
\* the timestamps of that window that are at most 60 s old, and no step of a request changes or creates the
\* window of another client.
Count(q, t) == Cardinality({i \in DOMAIN q : q[i] = t})
OwnAdmissions(ip, t) ==
    Cardinality({i \in DOMAIN admissions : admissions[i] = [ip |-> ip, t |-> t]})

C20_ClientIsolation ==
    /\ [](\A ip \in DOMAIN ip_hits :
            \A i \in DOMAIN ip_hits[ip] :
                Count(ip_hits[ip], ip_hits[ip][i]) <= OwnAdmissions(ip, ip_hits[ip][i]))
    /\ [][\A w \in Threads : pc'[w] # pc[w] =>
            /\ \A ip \in Clients \ {req[w].client_ip} :
                  /\ ip \in DOMAIN ip_hits' <=> ip \in DOMAIN ip_hits
                  /\ ip \in DOMAIN ip_hits => ip_hits'[ip] = ip_hits[ip]
            /\ DOMAIN ip_hits' \subseteq Clients
            /\ pc[w] = "rl_check" =>
                  (pc'[w] = "validate" <=>
                      Cardinality({i \in DOMAIN Window(w) :
                                      Window(w)[i] >= now[w] - WINDOW_SECONDS})
                         < RATE_LIMIT_RPM)]_vars

\* One client is rejected at its limit while the other one, in flight at the
\* same instant, is admitted.
C20_Witness ==
    \E w \in Threads, v \in Threads :
        /\ req[w].client_ip = "10.0.0.1" /\ req[v].client_ip = "10.0.0.2"
        /\ calls[w].rate_limit = "rejected"
        /\ calls[v].rate_limit = "admitted"

====
